---- MODULE Spec2Model ----
(***************************************************************************)
(* Engagement progress tracking of sarsen-webapp-server: the milestone     *)
(* registry, the transition validator, the transactional updateProgress    *)
(* use case with its progress-history ledger, and the completion handling. *)
(*                                                                         *)
(* Storage is MongoDB accessed through Mongoose.  A session transaction    *)
(* reads from the snapshot taken at its first read, buffers its writes     *)
(* until commitTransaction, and a write to a document that another         *)
(* transaction has written since that snapshot (committed or not) throws   *)
(* a WriteConflict.  Document.save() sends only the modified paths and    *)
(* sends nothing when no path is modified.                                 *)
(***************************************************************************)
EXTENDS Integers, Sequences, FiniteSets, TLC

VARIABLES
  eng,         \* committed Engagement documents, by id
  ledger,      \* committed ProgressHistory documents, by engagement, in creation order
  docVersion,  \* number of committed writes to each Engagement document
  feedback,    \* whether a Feedback document exists, by engagement
  tx,          \* the progress-update requests in flight, one record per slot
  notifications,  \* the in-memory notification store, newest first
  msg,         \* the sendMessage request in flight
  now,         \* the clock, in days since the server started
  stamps       \* the timestamps Mongoose keeps, by engagement

vars ==
  <<eng, ledger, docVersion, feedback, tx, notifications, msg, now, stamps>>

----------------------------------------------------------------------------
(* Bounds *)

\* progress-history documents kept per engagement
MaxLedger == 2

\* messages sent per engagement
MaxMessages == 1

Engagements == {"e1"}
Txns == {"t1", "t2"}
SlotBefore(u, t) == u = "t1" /\ t = "t2"

\* requested values that are not milestones
OtherRequests == {15}

\* the two routes that update progress: POST /api/admin/progress calls
\* progressService.updateProgress, PATCH /api/admin/engagements/:id/progress
\* calls engagementService.updateEngagementProgress
Routes == {"progress", "engagement"}

\* defaultProgress values stored on blueprints: validateCreateBlueprint
\* accepts every valid milestone, and the Blueprint schema itself stores any
\* number (15 stands for a blueprint written without the validator)
BlueprintDefaults == {10, 15, 90, 100}

----------------------------------------------------------------------------
(* Milestone registry (constants/milestones) *)

MILESTONES ==
  [START |-> 10, EARLY_PROGRESS |-> 20, QUARTER |-> 25, ONE_THIRD |-> 30,
   MID_PROGRESS |-> 40, HALF |-> 50, ADVANCED |-> 60, NEAR_COMPLETE |-> 70,
   THREE_QUARTER |-> 75, ALMOST_DONE |-> 80, FINAL_STAGE |-> 90,
   COMPLETED |-> 100]

ALLOWED_MILESTONES == <<10, 20, 25, 30, 40, 50, 60, 70, 75, 80, 90, 100>>

DEFAULT_STARTING_MILESTONE == MILESTONES.START

\* a range test in place of the membership test
isValidMilestone_range(value) ==
  value >= MILESTONES.START /\ value <= MILESTONES.COMPLETED

isValidMilestone(value) ==
  \E i \in DOMAIN ALLOWED_MILESTONES : ALLOWED_MILESTONES[i] = value

MilestoneSet == {ALLOWED_MILESTONES[i] : i \in DOMAIN ALLOWED_MILESTONES}

Requests == MilestoneSet \cup OtherRequests

\* the transition rules with 100 declared as a target of 80 as well
MILESTONE_TRANSITIONS_early100 ==
  (10 :> <<20, 25, 30>>) @@ (20 :> <<25, 30, 40>>) @@ (25 :> <<30, 40, 50>>)
  @@ (30 :> <<40, 50, 60>>) @@ (40 :> <<50, 60, 70>>)
  @@ (50 :> <<60, 70, 75>>) @@ (60 :> <<70, 75, 80>>)
  @@ (70 :> <<75, 80, 90>>) @@ (75 :> <<80, 90>>) @@ (80 :> <<90, 100>>)
  @@ (90 :> <<100>>) @@ (100 :> <<>>)

\* the declared transition rules, keyed by the source milestone
MILESTONE_TRANSITIONS ==
  (MILESTONES.START :>
     <<MILESTONES.EARLY_PROGRESS, MILESTONES.QUARTER, MILESTONES.ONE_THIRD>>)
  @@ (MILESTONES.EARLY_PROGRESS :>
     <<MILESTONES.QUARTER, MILESTONES.ONE_THIRD, MILESTONES.MID_PROGRESS>>)
  @@ (MILESTONES.QUARTER :>
     <<MILESTONES.ONE_THIRD, MILESTONES.MID_PROGRESS, MILESTONES.HALF>>)
  @@ (MILESTONES.ONE_THIRD :>
     <<MILESTONES.MID_PROGRESS, MILESTONES.HALF, MILESTONES.ADVANCED>>)
  @@ (MILESTONES.MID_PROGRESS :>
     <<MILESTONES.HALF, MILESTONES.ADVANCED, MILESTONES.NEAR_COMPLETE>>)
  @@ (MILESTONES.HALF :>
     <<MILESTONES.ADVANCED, MILESTONES.NEAR_COMPLETE,
       MILESTONES.THREE_QUARTER>>)
  @@ (MILESTONES.ADVANCED :>
     <<MILESTONES.NEAR_COMPLETE, MILESTONES.THREE_QUARTER,
       MILESTONES.ALMOST_DONE>>)
  @@ (MILESTONES.NEAR_COMPLETE :>
     <<MILESTONES.THREE_QUARTER, MILESTONES.ALMOST_DONE,
       MILESTONES.FINAL_STAGE>>)
  @@ (MILESTONES.THREE_QUARTER :>
     <<MILESTONES.ALMOST_DONE, MILESTONES.FINAL_STAGE>>)
  @@ (MILESTONES.ALMOST_DONE :> <<MILESTONES.FINAL_STAGE>>)
  @@ (MILESTONES.FINAL_STAGE :> <<MILESTONES.COMPLETED>>)
  @@ (MILESTONES.COMPLETED :> <<>>)

\* MILESTONE_TRANSITIONS[currentValue] || []
getAllowedTransitions(currentValue) ==
  IF currentValue \in DOMAIN MILESTONE_TRANSITIONS
    THEN MILESTONE_TRANSITIONS[currentValue]
    ELSE <<>>

\* the comparison of the fold turned round: it keeps the larger value
KeepSmaller_flipped(min, val) == IF val > min THEN val ELSE min

\* the callback of the fold: (min, val) => (val < min ? val : min)
KeepSmaller(min, val) == IF val < min THEN val ELSE min

\* allowed.reduce(KeepSmaller, allowed[0]): the fold over the elements from
\* index i on, starting from accumulator min
RECURSIVE Reduce(_, _, _)
Reduce(allowed, i, min) ==
  IF i > Len(allowed) THEN min
  ELSE Reduce(allowed, i + 1, KeepSmaller(min, allowed[i]))

\* the smallest allowed transition as a one-element sequence, the empty
\* sequence for undefined
getNextRecommendedMilestone(currentValue) ==
  LET allowed == getAllowedTransitions(currentValue) IN
    IF Len(allowed) = 0 THEN <<>>
    ELSE <<Reduce(allowed, 1, allowed[1])>>

----------------------------------------------------------------------------
(* Transition validator (progress.service) *)

MsgInvalidMilestone == "Invalid milestone value"
MsgDecreased == "Progress cannot be decreased. Milestones must move forward."
MsgSkip == "Cannot skip to 100%. Must reach 90% first."

\* the filter keeps the current milestone too
GreaterThan_orEqual(currentProgress, m) == m >= currentProgress

\* the predicate of the filter on line 875
GreaterThan(currentProgress, m) == m > currentProgress

\* the validator without its regression rule
validateProgressTransition_noRegression(currentProgress, newProgress) ==
  IF ~isValidMilestone(newProgress)
    THEN [isValid |-> FALSE, message |-> MsgInvalidMilestone,
          allowedTransitions |-> <<>>]
  ELSE IF newProgress = MILESTONES.COMPLETED
          /\ currentProgress # MILESTONES.FINAL_STAGE
    THEN [isValid |-> FALSE, message |-> MsgSkip,
          allowedTransitions |-> <<MILESTONES.FINAL_STAGE>>]
  ELSE [isValid |-> TRUE, message |-> "", allowedTransitions |-> <<>>]

\* the terminal rule tests "below 90" instead of "not 90"
validateProgressTransition_skipBelow(currentProgress, newProgress) ==
  IF ~isValidMilestone(newProgress)
    THEN [isValid |-> FALSE, message |-> MsgInvalidMilestone,
          allowedTransitions |-> <<>>]
  ELSE IF newProgress < currentProgress
    THEN [isValid |-> FALSE, message |-> MsgDecreased,
          allowedTransitions |->
            SelectSeq(ALLOWED_MILESTONES,
                      LAMBDA m : GreaterThan(currentProgress, m))]
  ELSE IF newProgress = MILESTONES.COMPLETED
          /\ currentProgress < MILESTONES.FINAL_STAGE
    THEN [isValid |-> FALSE, message |-> MsgSkip,
          allowedTransitions |-> <<MILESTONES.FINAL_STAGE>>]
  ELSE [isValid |-> TRUE, message |-> "", allowedTransitions |-> <<>>]

\* the terminal rule reports the forward milestones as alternatives
validateProgressTransition_skipAlternatives(currentProgress, newProgress) ==
  IF ~isValidMilestone(newProgress)
    THEN [isValid |-> FALSE, message |-> MsgInvalidMilestone,
          allowedTransitions |-> <<>>]
  ELSE IF newProgress < currentProgress
    THEN [isValid |-> FALSE, message |-> MsgDecreased,
          allowedTransitions |->
            SelectSeq(ALLOWED_MILESTONES,
                      LAMBDA m : GreaterThan(currentProgress, m))]
  ELSE IF newProgress = MILESTONES.COMPLETED
          /\ currentProgress # MILESTONES.FINAL_STAGE
    THEN [isValid |-> FALSE, message |-> MsgSkip,
          allowedTransitions |->
            SelectSeq(ALLOWED_MILESTONES,
                      LAMBDA m : GreaterThan(currentProgress, m))]
  ELSE [isValid |-> TRUE, message |-> "", allowedTransitions |-> <<>>]

validateProgressTransition(currentProgress, newProgress) ==
  IF ~isValidMilestone(newProgress)
    THEN [isValid |-> FALSE, message |-> MsgInvalidMilestone,
          allowedTransitions |-> <<>>]
  ELSE IF newProgress < currentProgress
    THEN [isValid |-> FALSE, message |-> MsgDecreased,
          allowedTransitions |->
            SelectSeq(ALLOWED_MILESTONES,
                      LAMBDA m : GreaterThan(currentProgress, m))]
  ELSE IF newProgress = MILESTONES.COMPLETED
          /\ currentProgress # MILESTONES.FINAL_STAGE
    THEN [isValid |-> FALSE, message |-> MsgSkip,
          allowedTransitions |-> <<MILESTONES.FINAL_STAGE>>]
  ELSE [isValid |-> TRUE, message |-> "", allowedTransitions |-> <<>>]

----------------------------------------------------------------------------
(* Documents *)

\* an id under which no Engagement document is stored
NoEngagement ==
  [exists |-> FALSE, currentProgress |-> 0, isCompleted |-> FALSE,
   completedAt |-> "unset", messagingAllowed |-> FALSE,
   progressHistory |-> <<>>, messageCount |-> 0]

\* the timestamps of an engagement that is not stored: createdAt and
\* updatedAt of the Engagement document, and createdAt and timeAtMilestone
\* of its ProgressHistory documents in creation order
NoStamps == [createdAt |-> 0, updatedAt |-> 0, entries |-> <<>>]

\* no sendMessage request in flight
IdleMsg ==
  [pc |-> "idle", engagementId |-> "none", snapVersion |-> 0,
   engagement |-> NoEngagement]

IdleTx ==
  [pc |-> "idle", via |-> "none", engagementId |-> "none", newProgress |-> 0,
   error |-> "", failedAt |-> "", snapVersion |-> 0,
   previousState |-> NoEngagement, ledgerBefore |-> <<>>,
   engagement |-> NoEngagement, wrote |-> FALSE, historyEntry |-> <<>>,
   timeAtMilestone |-> <<>>, savedAt |-> 0, entryStamp |-> <<>>]

\* the catch block: abortTransaction drops the buffered writes and the error
\* is rethrown to the caller
Thrown(call, error) ==
  [IdleTx EXCEPT !.pc = "aborted", !.via = call.via,
                 !.engagementId = call.engagementId,
                 !.newProgress = call.newProgress, !.error = error,
                 !.failedAt = call.pc]

\* one lock for the whole collection: any open transaction with an
\* uncommitted write counts, whatever document it wrote
LockedByOther_anyDocument(t, e) ==
  \E u \in Txns \ {t} : tx[u].wrote

\* another open transaction holds an uncommitted write to engagement e:
\* an update in a slot other than t, or the sendMessage transaction after
\* its save of messageCount
LockedByOther(t, e) ==
  \/ \E u \in Txns \ {t} : tx[u].engagementId = e /\ tx[u].wrote
  \/ t # "message" /\ msg.pc = "saved" /\ msg.engagementId = e

\* no conflict detection: the last writer wins
WriteConflict_never(t) == FALSE

\* the write of transaction t to its engagement document conflicts
WriteConflict(t) ==
  LET e == tx[t].engagementId IN
    ~tx[t].wrote /\ (docVersion[e] # tx[t].snapVersion \/ LockedByOther(t, e))

\* updateEngagementProgress runs the completion workflow after a committed
\* update to 100
CompletionPending(t) ==
  /\ tx[t].pc = "committed"
  /\ tx[t].via = "engagement"
  /\ tx[t].newProgress = MILESTONES.COMPLETED

\* call t has its outcome and is handing it to its caller
Returning(t) ==
  /\ tx[t].pc \in {"rejected", "aborted", "committed", "notified",
                   "unnotified"}
  /\ ~CompletionPending(t)

\* handleCompletion has resolved and updateEngagementProgress goes on to
\* the completion notification
Notifying(t) == tx[t].pc = "completed"

\* A call that has its outcome hands it to its caller in the same turn of
\* the event loop (return or throw, no await in between; the completion
\* notification is synchronous), so no step of another request comes
\* between the outcome and the return.
Responding == \E t \in Txns : Returning(t) \/ Notifying(t)

----------------------------------------------------------------------------
(* Engagement creation (engagement.service createEngagementFromPayment) *)

\* the blueprint's defaultProgress is stored as it is
createEngagementFromPayment_rawDefault(e, blueprintDefault, messagingEnabledByDefault) ==
  /\ ~eng[e].exists
  /\ ~Responding
  /\ eng' = [eng EXCEPT ![e] =
              [exists |-> TRUE, currentProgress |-> blueprintDefault,
               isCompleted |-> FALSE, completedAt |-> "unset",
               messagingAllowed |-> messagingEnabledByDefault,
               progressHistory |-> <<blueprintDefault>>,
               messageCount |-> 0]]
  /\ stamps' = [stamps EXCEPT ![e] =
                 [NoStamps EXCEPT !.createdAt = now, !.updatedAt = now]]
  /\ UNCHANGED <<ledger, docVersion, feedback, tx, notifications, msg, now>>

createEngagementFromPayment(e, blueprintDefault, messagingEnabledByDefault) ==
  /\ ~eng[e].exists
  /\ ~Responding
  /\ LET defaultProgress ==
           IF blueprintDefault # 0 /\ isValidMilestone(blueprintDefault)
             THEN blueprintDefault ELSE DEFAULT_STARTING_MILESTONE
     IN eng' = [eng EXCEPT ![e] =
                 [exists |-> TRUE, currentProgress |-> defaultProgress,
                  isCompleted |-> FALSE, completedAt |-> "unset",
                  messagingAllowed |-> messagingEnabledByDefault,
                  progressHistory |-> <<defaultProgress>>,
                  messageCount |-> 0]]
  /\ stamps' = [stamps EXCEPT ![e] =
                 [NoStamps EXCEPT !.createdAt = now, !.updatedAt = now]]
  /\ UNCHANGED <<ledger, docVersion, feedback, tx, notifications, msg, now>>

----------------------------------------------------------------------------
(* updateProgress (progress.service) *)

\* completion that leaves the messaging flag as it was
ApplyProgress_keepsMessaging(doc, newMilestone) ==
  LET moved == [doc EXCEPT !.currentProgress = newMilestone] IN
    IF newMilestone = MILESTONES.COMPLETED /\ ~doc.isCompleted
      THEN [moved EXCEPT !.isCompleted = TRUE, !.completedAt = "set"]
      ELSE moved

\* lines 981-989: the in-memory mutation of the loaded document
ApplyProgress(doc, newMilestone) ==
  LET moved == [doc EXCEPT !.currentProgress = newMilestone] IN
    IF newMilestone = MILESTONES.COMPLETED /\ ~doc.isCompleted
      THEN [moved EXCEPT !.isCompleted = TRUE, !.completedAt = "set",
                         !.messagingAllowed = FALSE]
      ELSE moved

\* request slots are interchangeable: a request takes the first free one
\* milliseconds in a day (Date arithmetic is in milliseconds, the clock of
\* this model counts days)
MsPerDay == 24 * 60 * 60 * 1000

\* the first of a non-empty set of ledger positions
First(S) == CHOOSE i \in S : \A j \in S : i <= j

\* calculateTimeAtMilestone: seconds between the first entry that reached
\* milestoneValue and the first later entry that left it, or now when no
\* entry left it yet; the empty sequence for undefined
calculateTimeAtMilestone(e, milestoneValue) ==
  LET entries == stamps[e].entries
      reached == {i \in DOMAIN ledger[e] :
                    ledger[e][i].toValue = milestoneValue}
  IN IF reached = {} THEN <<>>
     ELSE LET reachedDate == entries[First(reached)].createdAt
              next == {i \in DOMAIN ledger[e] :
                         /\ entries[i].createdAt > reachedDate
                         /\ ledger[e][i].fromValue = milestoneValue}
          IN IF next = {}
               THEN <<((now - reachedDate) * MsPerDay) \div 1000>>
               ELSE <<((entries[First(next)].createdAt - reachedDate)
                         * MsPerDay) \div 1000>>

FirstFreeSlot(t) ==
  \A u \in Txns : tx[u].pc = "idle" => ~SlotBefore(u, t)

MsgInvalidProgress == "Invalid progress value"
MsgNotFound == "Engagement not found"

\* The request enters through one of the two routes.  updateEngagementProgress
\* first checks isValidMilestone and looks the engagement up; updateProgress
\* then does startSession, startTransaction, findById and the validation that
\* follows it without an intervening await.
StartUpdate(t, via, e, newProgress) ==
  /\ tx[t].pc = "idle"
  /\ ~Responding
  /\ FirstFreeSlot(t)
  /\ Len(ledger[e])
       + Cardinality({u \in Txns : tx[u].engagementId = e
                                   /\ tx[u].pc \in {"validated", "saved",
                                                    "created", "cached"}})
       < MaxLedger
  /\ LET call == [IdleTx EXCEPT !.via = via, !.engagementId = e,
                                !.newProgress = newProgress,
                                !.snapVersion = docVersion[e],
                                !.previousState = eng[e],
                                !.ledgerBefore = ledger[e],
                                !.engagement = eng[e]]
         validation ==
           validateProgressTransition(eng[e].currentProgress, newProgress)
     IN IF via = "engagement" /\ ~isValidMilestone(newProgress)
          THEN tx' = [tx EXCEPT ![t] =
                 [call EXCEPT !.pc = "rejected",
                              !.error = MsgInvalidProgress]]
        ELSE IF ~eng[e].exists
          THEN tx' = [tx EXCEPT ![t] =
                 [call EXCEPT !.pc = "rejected", !.error = MsgNotFound]]
        ELSE IF ~validation.isValid
          THEN tx' = [tx EXCEPT ![t] =
                 [call EXCEPT !.pc = "rejected",
                              !.error = validation.message]]
        ELSE tx' = [tx EXCEPT ![t] = [call EXCEPT !.pc = "validated"]]
  /\ UNCHANGED <<eng, ledger, docVersion, feedback, notifications, msg, now,
                 stamps>>

\* lines 973-991: mutate the document and save it in the session.  The
\* timeAtMilestone read before it (calculateTimeAtMilestone) and the
\* previousState snapshot change no document; timestamps are not part of
\* this state.
SaveEngagement(t) ==
  /\ tx[t].pc = "validated"
  /\ ~Responding
  /\ LET doc == ApplyProgress(tx[t].engagement, tx[t].newProgress)
         modified == doc # tx[t].engagement
     IN IF modified /\ WriteConflict(t)
          THEN tx' = [tx EXCEPT ![t] = Thrown(tx[t], "WriteConflict")]
          ELSE tx' = [tx EXCEPT ![t].pc = "saved",
                                ![t].engagement = doc,
                                ![t].wrote = modified,
                                ![t].timeAtMilestone =
                                   calculateTimeAtMilestone(
                                     tx[t].engagementId,
                                     tx[t].previousState.currentProgress),
                                ![t].savedAt = IF modified THEN now ELSE @]
  /\ UNCHANGED <<eng, ledger, docVersion, feedback, notifications, msg, now,
                 stamps>>

\* ProgressHistory.create without the session: the document is stored at once
CreateHistoryEntry_noSession(t) ==
  /\ tx[t].pc = "saved"
  /\ ~Responding
  /\ ledger' = [ledger EXCEPT ![tx[t].engagementId] =
        Append(@, [fromValue |-> tx[t].previousState.currentProgress,
                   toValue |-> tx[t].newProgress])]
  /\ stamps' = [stamps EXCEPT ![tx[t].engagementId].entries =
        Append(@, [createdAt |-> now,
                   timeAtMilestone |-> tx[t].timeAtMilestone])]
  /\ tx' = [tx EXCEPT ![t].pc = "created"]
  /\ UNCHANGED <<eng, docVersion, feedback, notifications, msg, now>>

\* the entry written with fromValue read from the document after the
\* mutation instead of from previousState
CreateHistoryEntry_afterMutation(t) ==
  /\ tx[t].pc = "saved"
  /\ ~Responding
  /\ tx' = [tx EXCEPT ![t].pc = "created",
                      ![t].historyEntry =
                         <<[fromValue |-> tx[t].engagement.currentProgress,
                            toValue |-> tx[t].newProgress]>>,
                      ![t].entryStamp =
                         <<[createdAt |-> now,
                            timeAtMilestone |-> tx[t].timeAtMilestone]>>]
  /\ UNCHANGED <<eng, ledger, docVersion, feedback, notifications, msg, now,
                 stamps>>

\* lines 993-1004: ProgressHistory.create in the session
CreateHistoryEntry(t) ==
  /\ tx[t].pc = "saved"
  /\ ~Responding
  /\ tx' = [tx EXCEPT ![t].pc = "created",
                      ![t].historyEntry =
                         <<[fromValue |-> tx[t].previousState.currentProgress,
                            toValue |-> tx[t].newProgress]>>,
                      ![t].entryStamp =
                         <<[createdAt |-> now,
                            timeAtMilestone |-> tx[t].timeAtMilestone]>>]
  /\ UNCHANGED <<eng, ledger, docVersion, feedback, notifications, msg, now,
                 stamps>>

\* the second save without the session: the push is stored at once
SaveProgressHistory_noSession(t) ==
  /\ tx[t].pc = "created"
  /\ ~Responding
  /\ eng' = [eng EXCEPT ![tx[t].engagementId].progressHistory =
                Append(@, tx[t].newProgress)]
  /\ stamps' = [stamps EXCEPT ![tx[t].engagementId].updatedAt = now]
  /\ tx' = [tx EXCEPT ![t].pc = "cached",
                      ![t].engagement.progressHistory =
                         Append(@, tx[t].newProgress),
                      ![t].savedAt = now]
  /\ UNCHANGED <<ledger, docVersion, feedback, notifications, msg, now>>

\* lines 1006-1014: push onto the embedded progressHistory and save again
SaveProgressHistory(t) ==
  /\ tx[t].pc = "created"
  /\ ~Responding
  /\ IF WriteConflict(t)
       THEN tx' = [tx EXCEPT ![t] = Thrown(tx[t], "WriteConflict")]
       ELSE tx' = [tx EXCEPT ![t].pc = "cached",
                             ![t].engagement.progressHistory =
                                Append(@, tx[t].newProgress),
                             ![t].wrote = TRUE,
                             ![t].savedAt = now]
  /\ UNCHANGED <<eng, ledger, docVersion, feedback, notifications, msg, now,
                 stamps>>

\* line 1016: commitTransaction makes the buffered writes visible
CommitTransaction(t) ==
  /\ tx[t].pc = "cached"
  /\ ~Responding
  /\ LET e == tx[t].engagementId IN
       /\ eng' = [eng EXCEPT ![e] = tx[t].engagement]
       /\ ledger' = [ledger EXCEPT ![e] = @ \o tx[t].historyEntry]
       /\ docVersion' = [docVersion EXCEPT ![e] = @ + 1]
       /\ stamps' = [stamps EXCEPT ![e].updatedAt = tx[t].savedAt,
                                   ![e].entries = @ \o tx[t].entryStamp]
  /\ tx' = [tx EXCEPT ![t] =
              [IdleTx EXCEPT !.pc = "committed", !.via = tx[t].via,
                             !.engagementId = tx[t].engagementId,
                             !.newProgress = tx[t].newProgress,
                             !.engagement = tx[t].engagement]]
  /\ UNCHANGED <<feedback, notifications, msg, now>>

\* lines 1021-1026: any awaited operation throws; abortTransaction drops
\* the buffered writes
AbortTransaction(t) ==
  /\ tx[t].pc \in {"validated", "saved", "created", "cached"}
  /\ ~Responding
  /\ tx' = [tx EXCEPT ![t] = Thrown(tx[t], "failure")]
  /\ UNCHANGED <<eng, ledger, docVersion, feedback, notifications, msg, now,
                 stamps>>

\* completion.service handleCompletion: one transaction that loads the
\* engagement, marks it completed, disables messaging, saves and commits.
\* Its only write is to the engagement document, so it commits exactly when
\* no other transaction wrote the document between its read and its commit,
\* and it then takes effect on the committed document in one step.
handleCompletion(t) ==
  /\ CompletionPending(t)
  /\ ~Responding
  /\ LET e == tx[t].engagementId
         loaded == eng[e]
         marked == IF ~loaded.isCompleted
                     THEN [loaded EXCEPT !.isCompleted = TRUE,
                                         !.completedAt = "set"]
                     ELSE loaded
         doc == [marked EXCEPT !.messagingAllowed = FALSE]
     IN IF doc # loaded /\ LockedByOther(t, e)
          THEN /\ tx' = [tx EXCEPT ![t] = Thrown(tx[t], "WriteConflict")]
               /\ UNCHANGED <<eng, docVersion, stamps>>
          ELSE /\ eng' = [eng EXCEPT ![e] = doc]
               /\ docVersion' = [docVersion EXCEPT ![e] =
                                   IF doc # loaded THEN @ + 1 ELSE @]
               /\ stamps' = [stamps EXCEPT ![e].updatedAt =
                                IF doc # loaded THEN now ELSE @]
               /\ tx' = [tx EXCEPT ![t].pc = "completed"]
  /\ UNCHANGED <<ledger, feedback, notifications, msg, now>>

\* handleCompletion throws (its transaction is aborted)
handleCompletionFails(t) ==
  /\ CompletionPending(t)
  /\ ~Responding
  /\ tx' = [tx EXCEPT ![t] = Thrown(tx[t], "failure")]
  /\ UNCHANGED <<eng, ledger, docVersion, feedback, notifications, msg, now,
                 stamps>>

\* notification.service createNotification: unshift onto the store (the
\* cap of MAX_NOTIFICATIONS = 100 entries is beyond these bounds)
createNotification(type, e) ==
  <<[type |-> type, engagementId |-> e]>> \o notifications

\* the notification without its try/catch: a throw reaches the caller
onEngagementCompleted_rethrow(t) ==
  /\ Notifying(t)
  /\ \/ /\ notifications' =
              createNotification("engagement.completed", tx[t].engagementId)
        /\ tx' = [tx EXCEPT ![t].pc = "notified"]
     \/ /\ notifications' = notifications
        /\ tx' = [tx EXCEPT ![t] = Thrown(tx[t], "failure")]
  /\ UNCHANGED <<eng, ledger, docVersion, feedback, msg, now, stamps>>

\* updateEngagementProgress lines 725-734: onEngagementCompleted inside
\* try/catch; a throw is logged and swallowed
onEngagementCompleted(t) ==
  /\ Notifying(t)
  /\ \/ /\ notifications' =
              createNotification("engagement.completed", tx[t].engagementId)
        /\ tx' = [tx EXCEPT ![t].pc = "notified"]
     \/ /\ notifications' = notifications
        /\ tx' = [tx EXCEPT ![t].pc = "unnotified"]
  /\ UNCHANGED <<eng, ledger, docVersion, feedback, msg, now, stamps>>

\* getProgressHistory: the ledger of an engagement, newest first, at most
\* limit entries
getProgressHistory(e, limit) ==
  LET n == Len(ledger[e])
      k == IF limit < n THEN limit ELSE n
  IN [i \in 1..k |-> ledger[e][n + 1 - i]]

\* the call returns or rethrows to its caller
Return(t) ==
  /\ Returning(t)
  /\ tx' = [tx EXCEPT ![t] = IdleTx]
  /\ UNCHANGED <<eng, ledger, docVersion, feedback, notifications, msg, now,
                 stamps>>

\* engagement.service getNextMilestone: the recommended next milestone of
\* the stored currentProgress, the empty sequence for null
getNextMilestone(e) ==
  getNextRecommendedMilestone(eng[e].currentProgress)

----------------------------------------------------------------------------
(* Messaging and feedback *)

\* message.service sendMessage: one transaction that loads the engagement,
\* refuses when messaging is disabled or the engagement is completed,
\* creates the Message and increments messageCount on the engagement.  The
\* increment is a write to the engagement document, so the transaction
\* commits exactly when no other transaction wrote the document meanwhile.
sendMessage(e) ==
  /\ eng[e].exists
  /\ ~Responding
  /\ eng[e].messagingAllowed
  /\ ~eng[e].isCompleted
  /\ ~LockedByOther("none", e)
  /\ eng[e].messageCount < MaxMessages
  /\ eng' = [eng EXCEPT ![e].messageCount = @ + 1]
  /\ docVersion' = [docVersion EXCEPT ![e] = @ + 1]
  /\ stamps' = [stamps EXCEPT ![e].updatedAt = now]
  /\ UNCHANGED <<ledger, feedback, tx, notifications, msg, now>>

\* The steps of the same sendMessage transaction, for its interleavings
\* with the steps of an update.

\* lines 48-69: start the transaction and load the engagement in it; the
\* request goes on when messaging is allowed and the engagement is not
\* completed (a refusal throws before anything is written)
LoadForMessage(e) ==
  /\ msg.pc = "idle"
  /\ ~Responding
  /\ eng[e].exists
  /\ eng[e].messagingAllowed
  /\ ~eng[e].isCompleted
  /\ eng[e].messageCount < MaxMessages
  /\ msg' = [pc |-> "loaded", engagementId |-> e,
             snapVersion |-> docVersion[e], engagement |-> eng[e]]
  /\ UNCHANGED <<eng, ledger, docVersion, feedback, tx, notifications, now,
                 stamps>>

\* lines 71-97: look the sender up and create the Message in the session
CreateMessage ==
  /\ msg.pc = "loaded"
  /\ ~Responding
  /\ msg' = [msg EXCEPT !.pc = "created"]
  /\ UNCHANGED <<eng, ledger, docVersion, feedback, tx, notifications, now,
                 stamps>>

\* the engagement read outside the transaction: only an open write of
\* another transaction makes the save fail
MessageWriteConflict_lockOnly ==
  LockedByOther("message", msg.engagementId)

\* the save of messageCount conflicts when the engagement document was
\* written after the transaction read it or another transaction holds an
\* uncommitted write to it
MessageWriteConflict ==
  \/ docVersion[msg.engagementId] # msg.snapVersion
  \/ LockedByOther("message", msg.engagementId)

\* lines 99-101: increment messageCount and save in the session; a write
\* conflict throws and the catch block aborts the transaction
SaveMessageCount ==
  /\ msg.pc = "created"
  /\ ~Responding
  /\ IF MessageWriteConflict
       THEN msg' = IdleMsg
       ELSE msg' = [msg EXCEPT !.pc = "saved",
                               !.engagement.messageCount = @ + 1]
  /\ UNCHANGED <<eng, ledger, docVersion, feedback, tx, notifications, now,
                 stamps>>

\* line 103: commitTransaction stores the Message and the modified path
\* messageCount of the engagement
CommitMessage ==
  /\ msg.pc = "saved"
  /\ ~Responding
  /\ eng' = [eng EXCEPT ![msg.engagementId].messageCount =
                           msg.engagement.messageCount]
  /\ docVersion' = [docVersion EXCEPT ![msg.engagementId] = @ + 1]
  /\ stamps' = [stamps EXCEPT ![msg.engagementId].updatedAt = now]
  /\ msg' = IdleMsg
  /\ UNCHANGED <<ledger, feedback, tx, notifications, now>>

\* lines 108-110: an awaited operation throws; abortTransaction drops the
\* Message and the increment
AbortMessage ==
  /\ msg.pc \in {"loaded", "created", "saved"}
  /\ ~Responding
  /\ msg' = IdleMsg
  /\ UNCHANGED <<eng, ledger, docVersion, feedback, tx, notifications, now,
                 stamps>>

\* submitFeedback without the test of isCompleted
submitFeedback_anyEngagement(e) ==
  /\ eng[e].exists
  /\ ~Responding
  /\ ~feedback[e]
  /\ feedback' = [feedback EXCEPT ![e] = TRUE]
  /\ UNCHANGED <<eng, ledger, docVersion, tx, notifications, msg, now, stamps>>

\* feedback.service submitFeedback: it throws, and creates nothing, for a
\* missing engagement, one that is not completed, or one that has feedback
submitFeedback(e) ==
  /\ eng[e].exists
  /\ ~Responding
  /\ eng[e].isCompleted
  /\ ~feedback[e]
  /\ feedback' = [feedback EXCEPT ![e] = TRUE]
  /\ UNCHANGED <<eng, ledger, docVersion, tx, notifications, msg, now, stamps>>

\* feedback.service deleteFeedback
deleteFeedback(e) ==
  /\ feedback[e]
  /\ ~Responding
  /\ feedback' = [feedback EXCEPT ![e] = FALSE]
  /\ UNCHANGED <<eng, ledger, docVersion, tx, notifications, msg, now, stamps>>

----------------------------------------------------------------------------
(* Completion and access gate (completion.service) *)

\* The readers below load the engagement and then count its feedback in two
\* separate reads outside any transaction, so the feedback count may be
\* newer than the document: each is an operator on the values it has read.

\* feedback.service hasFeedback: countDocuments({engagementId}) > 0
hasFeedback(e) == feedback[e]

\* getCompletionStatus on the document and the feedback count it has read
getCompletionStatus(engagement, feedbackFound) ==
  LET gate ==
        IF engagement.isCompleted
          THEN IF ~feedbackFound
                 THEN [accessMode |-> "feedback-required", canAccess |-> FALSE]
                 ELSE [accessMode |-> "read-only", canAccess |-> TRUE]
          ELSE [accessMode |-> "full", canAccess |-> TRUE]
  IN [isCompleted |-> engagement.isCompleted, hasFeedback |-> feedbackFound,
      canAccess |-> gate.canAccess, accessMode |-> gate.accessMode,
      completedAt |-> engagement.completedAt]

\* canAccessEngagement: found is the result of findOne({_id, userId})
canAccessEngagement(found, engagement, feedbackFound) ==
  IF ~found THEN FALSE
  ELSE IF ~engagement.isCompleted THEN TRUE
  ELSE feedbackFound

\* the feedback test comes before the completion test
getAccessMode_feedbackFirst(engagement, feedbackFound) ==
  IF ~feedbackFound
    THEN [mode |-> "feedback-required",
          message |-> "Please submit your feedback to continue"]
  ELSE IF ~engagement.isCompleted
    THEN [mode |-> "full", message |-> "Full engagement access"]
  ELSE [mode |-> "read-only",
        message |-> "Engagement completed - read-only access"]

\* getAccessMode on the document and the feedback count it has read
getAccessMode(engagement, feedbackFound) ==
  IF ~engagement.isCompleted
    THEN [mode |-> "full", message |-> "Full engagement access"]
  ELSE IF ~feedbackFound
    THEN [mode |-> "feedback-required",
          message |-> "Please submit your feedback to continue"]
  ELSE [mode |-> "read-only",
        message |-> "Engagement completed - read-only access"]

\* the messaging flag is returned whatever the completion flag says
isMessagingAllowed_flagOnly(found, engagement) ==
  IF ~found THEN FALSE ELSE engagement.messagingAllowed

\* isMessagingAllowed: found is the result of findById
isMessagingAllowed(found, engagement) ==
  IF ~found THEN FALSE
  ELSE ~engagement.isCompleted /\ engagement.messagingAllowed

----------------------------------------------------------------------------
(* Clock and stall detection (progress.service checkStalledEngagements) *)

\* the last day of the clock
MaxDays == 3

\* A day passes.  A transaction lives for seconds, so no day passes while
\* a request is in flight.
Tick ==
  /\ now < MaxDays
  /\ ~Responding
  /\ \A t \in Txns : tx[t].pc = "idle"
  /\ msg.pc = "idle"
  /\ now' = now + 1
  /\ UNCHANGED <<eng, ledger, docVersion, feedback, tx, notifications, msg,
                 stamps>>

\* $sort {lastUpdate: 1}: the engagements of S, smallest updatedAt first
RECURSIVE SortByLastUpdate(_)
SortByLastUpdate(S) ==
  IF S = {} THEN <<>>
  ELSE LET e == CHOOSE x \in S :
                  \A y \in S : stamps[x].updatedAt <= stamps[y].updatedAt
       IN <<e>> \o SortByLastUpdate(S \ {e})

\* checkStalledEngagements: the engagements that are active (isActive is
\* true from creation on and nothing resets it), not completed and whose
\* updatedAt is before now minus daysThreshold days, oldest updatedAt first
checkStalledEngagements(daysThreshold) ==
  LET thresholdDate == now - daysThreshold
      matched == {e \in DOMAIN eng : /\ eng[e].exists
                                     /\ ~eng[e].isCompleted
                                     /\ stamps[e].updatedAt < thresholdDate}
      sorted == SortByLastUpdate(matched)
  IN [i \in DOMAIN sorted |->
        [engagementId |-> sorted[i],
         currentProgress |-> eng[sorted[i]].currentProgress,
         lastUpdate |-> stamps[sorted[i]].updatedAt,
         totalHistory |-> Len(ledger[sorted[i]])]]

----------------------------------------------------------------------------
(* Completion middleware (completion.middleware) *)

\* the HTTP methods a client request can carry
Methods == {"GET", "HEAD", "POST", "PUT", "PATCH", "DELETE"}

\* the outcomes of a middleware: next() or an ApiError handed to next
Passed == [next |-> TRUE, statusCode |-> 0, message |-> ""]

ApiError(statusCode, message) ==
  [next |-> FALSE, statusCode |-> statusCode, message |-> message]

\* the method test applied as soon as the engagement is completed
enforceReadOnly_onCompletion(client, engagementId, method, status) ==
  IF ~client THEN ApiError(401, "Authentication required")
  ELSE IF ~engagementId THEN ApiError(400, "No engagement context found")
  ELSE IF status.isCompleted /\ method # "GET"
    THEN ApiError(403, "Engagement is in read-only mode")
  ELSE Passed

\* enforceReadOnly: client and engagementId say whether req.client and
\* req.client.engagementId are set, status is the getCompletionStatus read
enforceReadOnly(client, engagementId, method, status) ==
  IF ~client THEN ApiError(401, "Authentication required")
  ELSE IF ~engagementId THEN ApiError(400, "No engagement context found")
  ELSE IF status.isCompleted /\ status.hasFeedback /\ method # "GET"
    THEN ApiError(403, "Engagement is in read-only mode")
  ELSE Passed

----------------------------------------------------------------------------

Init ==
  /\ eng = [e \in Engagements |-> NoEngagement]
  /\ ledger = [e \in Engagements |-> <<>>]
  /\ docVersion = [e \in Engagements |-> 0]
  /\ feedback = [e \in Engagements |-> FALSE]
  /\ tx = [t \in Txns |-> IdleTx]
  /\ notifications = <<>>
  /\ msg = IdleMsg
  /\ now = 0
  /\ stamps = [e \in Engagements |-> NoStamps]

Next ==
  \/ \E e \in Engagements, d \in BlueprintDefaults, m \in BOOLEAN :
       createEngagementFromPayment(e, d, m)
  \/ \E t \in Txns, via \in Routes, e \in Engagements, r \in Requests :
       StartUpdate(t, via, e, r)
  \/ \E t \in Txns : SaveEngagement(t)
  \/ \E t \in Txns : CreateHistoryEntry(t)
  \/ \E t \in Txns : SaveProgressHistory(t)
  \/ \E t \in Txns : CommitTransaction(t)
  \/ \E t \in Txns : AbortTransaction(t)
  \/ \E t \in Txns : handleCompletion(t)
  \/ \E t \in Txns : handleCompletionFails(t)
  \/ \E t \in Txns : onEngagementCompleted(t)
  \/ \E t \in Txns : Return(t)
  \/ \E e \in Engagements : sendMessage(e)
  \/ \E e \in Engagements : submitFeedback(e)
  \/ \E e \in Engagements : deleteFeedback(e)

Spec == Init /\ [][Next]_vars

----------------------------------------------------------------------------
(* Two engagements updated side by side through POST /api/admin/progress *)

EngagementPair == {"e1", "e2"}

\* requested values: the creation value, two forward values, the terminal
\* one
PairRequests == {10, 25, 90, 100}

InitPair ==
  /\ eng = [e \in EngagementPair |-> NoEngagement]
  /\ ledger = [e \in EngagementPair |-> <<>>]
  /\ docVersion = [e \in EngagementPair |-> 0]
  /\ feedback = [e \in EngagementPair |-> FALSE]
  /\ tx = [t \in Txns |-> IdleTx]
  /\ notifications = <<>>
  /\ msg = IdleMsg
  /\ now = 0
  /\ stamps = [e \in EngagementPair |-> NoStamps]

NextPair ==
  \/ \E e \in EngagementPair :
       createEngagementFromPayment(e, DEFAULT_STARTING_MILESTONE, TRUE)
  \/ \E t \in Txns, e \in EngagementPair, r \in PairRequests :
       StartUpdate(t, "progress", e, r)
  \/ \E t \in Txns : SaveEngagement(t)
  \/ \E t \in Txns : CreateHistoryEntry(t)
  \/ \E t \in Txns : SaveProgressHistory(t)
  \/ \E t \in Txns : CommitTransaction(t)
  \/ \E t \in Txns : AbortTransaction(t)
  \/ \E t \in Txns : Return(t)

SpecPair == InitPair /\ [][NextPair]_vars

----------------------------------------------------------------------------
(* One engagement, one update in flight and the sendMessage transaction
   step by step *)

\* the update requests that lead to completion
CompletingRequests == {MILESTONES.FINAL_STAGE, MILESTONES.COMPLETED}

\* the blueprint defaults engagements are created with here
MessageDefaults == {DEFAULT_STARTING_MILESTONE, MILESTONES.FINAL_STAGE}

NextMessage ==
  \/ \E e \in Engagements, d \in MessageDefaults, m \in BOOLEAN :
       createEngagementFromPayment(e, d, m)
  \/ \E via \in Routes, e \in Engagements, r \in CompletingRequests :
       StartUpdate("t1", via, e, r)
  \/ SaveEngagement("t1")
  \/ CreateHistoryEntry("t1")
  \/ SaveProgressHistory("t1")
  \/ CommitTransaction("t1")
  \/ AbortTransaction("t1")
  \/ handleCompletion("t1")
  \/ handleCompletionFails("t1")
  \/ onEngagementCompleted("t1")
  \/ Return("t1")
  \/ \E e \in Engagements : LoadForMessage(e)
  \/ CreateMessage
  \/ SaveMessageCount
  \/ CommitMessage
  \/ AbortMessage

SpecMessage == Init /\ [][NextMessage]_vars

----------------------------------------------------------------------------
(* One engagement under the clock: updates one at a time, messages and days
   passing between them *)

NextClock ==
  \/ Tick
  \/ \E e \in Engagements, m \in BOOLEAN :
       createEngagementFromPayment(e, DEFAULT_STARTING_MILESTONE, m)
  \/ \E e \in Engagements, r \in PairRequests :
       StartUpdate("t1", "progress", e, r)
  \/ SaveEngagement("t1")
  \/ CreateHistoryEntry("t1")
  \/ SaveProgressHistory("t1")
  \/ CommitTransaction("t1")
  \/ AbortTransaction("t1")
  \/ Return("t1")
  \/ \E e \in Engagements : sendMessage(e)

SpecClock == Init /\ [][NextClock]_vars

----------------------------------------------------------------------------
(* Properties *)

InFlight == {"validated", "saved", "created", "cached"}

\* the step in which call t commits its transaction
CommitStep(t) == tx[t].pc = "cached" /\ tx'[t].pc = "committed"

\* the step in which slot t takes a new request
StartStep(t) == tx[t].pc = "idle" /\ tx'[t].pc # "idle"

\* C1: for every engagement, under any interleaving of updateProgress calls,
\* accepted or rejected, the committed currentProgress never decreases.
C1_ProgressNeverDecreases ==
  [][\A e \in Engagements :
       eng[e].exists => eng'[e].currentProgress >= eng[e].currentProgress]_vars

\* two forward updates were committed one after the other
C1_Witness ==
  \E e \in Engagements :
    /\ Len(ledger[e]) = 2
    /\ ledger[e][1].toValue > ledger[e][1].fromValue
    /\ ledger[e][2].toValue > ledger[e][2].fromValue
    /\ eng[e].currentProgress = ledger[e][2].toValue

\* C2: a request for 100 passes validation exactly when the engagement's
\* current value is 90, and an update to 100 is only ever committed on an
\* engagement whose committed value is 90; for every other current value,
\* 100 included, the call fails.
C2_TerminalGate ==
  [][\A t \in Txns :
       /\ (StartStep(t) /\ tx'[t].newProgress = MILESTONES.COMPLETED
             /\ eng[tx'[t].engagementId].exists)
          => /\ tx'[t].pc \in {"validated", "rejected"}
             /\ tx'[t].pc = "validated"
                  <=> eng[tx'[t].engagementId].currentProgress
                        = MILESTONES.FINAL_STAGE
       /\ (CommitStep(t) /\ tx[t].newProgress = MILESTONES.COMPLETED)
          => /\ eng[tx[t].engagementId].currentProgress
                  = MILESTONES.FINAL_STAGE
             /\ eng'[tx[t].engagementId].currentProgress
                  = MILESTONES.COMPLETED]_vars

\* an update from 90 to 100 has committed
C2_Witness ==
  \E t \in Txns :
    /\ tx[t].pc = "committed"
    /\ tx[t].newProgress = MILESTONES.COMPLETED
    /\ eng[tx[t].engagementId].currentProgress = MILESTONES.COMPLETED
    /\ ledger[tx[t].engagementId][Len(ledger[tx[t].engagementId])]
         = [fromValue |-> MILESTONES.FINAL_STAGE,
            toValue |-> MILESTONES.COMPLETED]

\* C3: once an engagement has isCompleted = true, no step of updateProgress,
\* updateEngagementProgress, handleCompletion, sendMessage, submitFeedback or
\* deleteFeedback leaves it with isCompleted = false or messagingAllowed =
\* true.
C3_OneWayCompletion ==
  [][\A e \in Engagements :
       eng[e].isCompleted
         => eng'[e].isCompleted /\ ~eng'[e].messagingAllowed]_vars

\* a completed engagement that received a message before completion, went
\* through handleCompletion and has its feedback submitted
C3_Witness ==
  \E e \in Engagements :
    /\ eng[e].isCompleted
    /\ ~eng[e].messagingAllowed
    /\ eng[e].messageCount > 0
    /\ feedback[e]
    /\ \E t \in Txns : tx[t].pc = "completed" /\ tx[t].engagementId = e

\* C4: in every reachable state an engagement's isCompleted flag is true
\* exactly when its currentProgress is 100.
C4_CompletedIffTerminal ==
  \A e \in Engagements :
    eng[e].exists
      => (eng[e].isCompleted <=> eng[e].currentProgress = MILESTONES.COMPLETED)

\* C5: in every committed state in which the engagement has a ledger entry,
\* the toValue of the newest entry, getProgressHistory(e)[0], equals the
\* engagement's currentProgress.
C5_LedgerMatchesState ==
  \A e \in Engagements :
    Len(ledger[e]) > 0
      => getProgressHistory(e, 50)[1].toValue = eng[e].currentProgress

\* an update from 10 to 25 has committed
C5_Witness ==
  \E t \in Txns :
    /\ tx[t].pc = "committed"
    /\ tx[t].newProgress = 25
    /\ getProgressHistory(tx[t].engagementId, 50)
         = <<[fromValue |-> 10, toValue |-> 25]>>

\* the writes buffered by call t are not visible: the committed documents
\* equal their values before the call
PendingInvisible(t) ==
  tx[t].wrote
    => /\ eng[tx[t].engagementId] = tx[t].previousState
       /\ ledger[tx[t].engagementId] = tx[t].ledgerBefore

\* C6: a failure inside updateProgress at any point after its first write
\* persists none of its writes: until the commit the committed engagement and
\* ledger equal their pre-call values, and no step of the call other than
\* its commit, the abort included, changes them.
C6_AbortPersistsNothing ==
  /\ [](\A t \in Txns : PendingInvisible(t))
  /\ [][\A t \in Txns :
          (tx[t].pc \in InFlight /\ tx'[t] # tx[t] /\ ~CommitStep(t))
            => eng' = eng /\ ledger' = ledger]_vars

\* a call failed after the ledger append and before the embedded-history
\* save, and the engagement still has its creation state
C6_Witness ==
  \E t \in Txns :
    /\ tx[t].pc = "aborted"
    /\ tx[t].error = "failure"
    /\ tx[t].failedAt = "created"
    /\ ledger[tx[t].engagementId] = <<>>
    /\ Len(eng[tx[t].engagementId].progressHistory) = 1

\* updateProgress run alone, from load to commit, on document doc
SerialUpdateProgress(doc, newProgress) ==
  IF validateProgressTransition(doc.currentProgress, newProgress).isValid
    THEN [ApplyProgress(doc, newProgress) EXCEPT
            !.progressHistory = Append(@, newProgress)]
    ELSE doc

\* C7: concurrent updateProgress calls on one engagement take effect as if
\* run one after the other in commit order: each commit is validated against
\* and applied to the value committed before it, and two requests from 90 to
\* 100 never both commit.
C7_Serializable ==
  /\ [][\A t \in Txns :
          CommitStep(t)
            => LET e == tx[t].engagementId
                   r == tx[t].newProgress
               IN /\ validateProgressTransition(eng[e].currentProgress, r).isValid
                  /\ eng'[e] = SerialUpdateProgress(eng[e], r)
                  /\ ledger'[e] =
                       Append(ledger[e],
                              [fromValue |-> eng[e].currentProgress,
                               toValue |-> r])]_vars
  /\ [](\A e \in Engagements :
          Cardinality({i \in DOMAIN ledger[e] :
                         ledger[e][i].toValue = MILESTONES.COMPLETED}) <= 1)

\* of two concurrent requests from 90 to 100 one has committed and the other
\* is aborted by a write conflict
C7_Witness ==
  \E u \in Txns :
    /\ tx[u].pc = "aborted"
    /\ tx[u].error = "WriteConflict"
    /\ tx[u].newProgress = MILESTONES.COMPLETED
    /\ ledger[tx[u].engagementId]
         = <<[fromValue |-> MILESTONES.FINAL_STAGE,
              toValue |-> MILESTONES.COMPLETED]>>

\* the cases in which updateProgress must reject a request for value r on
\* engagement e
MustReject(e, r) ==
  \/ ~eng[e].exists
  \/ r \notin MilestoneSet
  \/ r < eng[e].currentProgress
  \/ r = 100 /\ eng[e].currentProgress # 90

\* C8: a call for a missing engagement, a value that is no milestone, a
\* regression, or 100 while not at 90 is rejected, and a rejected call buffers
\* no write and leaves the engagement and the ledger as they were.
C8_RejectionChangesNothing ==
  [][\A t \in Txns :
       /\ StartStep(t)
          => /\ MustReject(tx'[t].engagementId, tx'[t].newProgress)
                  => tx'[t].pc = "rejected"
             /\ tx'[t].pc = "rejected"
                  => /\ eng' = eng /\ ledger' = ledger
                     /\ ~tx'[t].wrote /\ tx'[t].historyEntry = <<>>
       /\ (tx[t].pc = "rejected" /\ tx'[t] # tx[t])
          => tx'[t].pc = "idle" /\ eng' = eng /\ ledger' = ledger]_vars

\* a request for a value that is no milestone was rejected on an engagement
\* that has already been updated
C8_Witness ==
  \E t \in Txns :
    /\ tx[t].pc = "rejected"
    /\ tx[t].error = MsgInvalidMilestone
    /\ Len(ledger[tx[t].engagementId]) > 0

Range(seq) == {seq[i] : i \in DOMAIN seq}

\* C9: for every current milestone and every valid requested milestone
\* strictly smaller, the validator rejects and reports exactly the milestones
\* strictly greater than the current one.
C9_RegressionAlternatives ==
  \A t \in Txns :
    (/\ tx[t].pc = "rejected"
     /\ tx[t].previousState.exists
     /\ tx[t].newProgress \in MilestoneSet
     /\ tx[t].newProgress < tx[t].previousState.currentProgress)
      => LET cur == tx[t].previousState.currentProgress
             v == validateProgressTransition(cur, tx[t].newProgress)
         IN /\ tx[t].error = MsgDecreased
            /\ ~v.isValid
            /\ v.message = MsgDecreased
            /\ Range(v.allowedTransitions) = {m \in MilestoneSet : m > cur}
            /\ Len(v.allowedTransitions)
                 = Cardinality({m \in MilestoneSet : m > cur})

\* an engagement at 25 was asked to go to 20
C9_Witness ==
  \E t \in Txns :
    /\ tx[t].pc = "rejected"
    /\ tx[t].previousState.currentProgress = 25
    /\ tx[t].newProgress = 20
    /\ tx[t].error = MsgDecreased

\* C10: for requested value 100 and every current milestone other than 90
\* the validator rejects with the must-reach-90 reason and reports exactly
\* <<90>> as the allowed alternative.
C10_TerminalAlternatives ==
  \A t \in Txns :
    (/\ tx[t].pc = "rejected"
     /\ tx[t].previousState.exists
     /\ tx[t].newProgress = 100
     /\ tx[t].previousState.currentProgress # 90)
      => LET v == validateProgressTransition(
                    tx[t].previousState.currentProgress, tx[t].newProgress)
         IN /\ tx[t].error = MsgSkip
            /\ ~v.isValid
            /\ v.message = MsgSkip
            /\ v.allowedTransitions = <<90>>

\* an engagement at 80 was asked to go to 100
C10_Witness ==
  \E t \in Txns :
    /\ tx[t].pc = "rejected"
    /\ tx[t].previousState.currentProgress = 80
    /\ tx[t].newProgress = 100
    /\ tx[t].error = MsgSkip

\* C11: in every reachable state every engagement's currentProgress is one
\* of the milestones 10, 20, 25, 30, 40, 50, 60, 70, 75, 80, 90, 100:
\* creation stores only a valid milestone and updateProgress rejects every
\* requested value outside the set.
C11_AlwaysMilestone ==
  /\ [](\A e \in Engagements :
          eng[e].exists => eng[e].currentProgress \in MilestoneSet)
  /\ [][\A t \in Txns :
          (StartStep(t) /\ tx'[t].newProgress \notin MilestoneSet)
            => tx'[t].pc = "rejected"]_vars

\* the validator of updateProgress rejected the value 15 on an engagement
\* that had gone from 90 to 100
C11_Witness ==
  \E t \in Txns :
    /\ tx[t].pc = "rejected"
    /\ tx[t].via = "progress"
    /\ tx[t].newProgress = 15
    /\ tx[t].error = MsgInvalidMilestone
    /\ eng[tx[t].engagementId].currentProgress = MILESTONES.COMPLETED
    /\ Len(ledger[tx[t].engagementId]) = 1

\* C12: an updateProgress request for the engagement's current value (below
\* 100) passes validation and is an idempotent no-op: currentProgress and
\* the completion flags stay, no ledger entry and no embedded-history entry
\* is added, and the ledger never holds an entry whose fromValue equals its
\* toValue.
C12_EqualRequestIsNoOp ==
  /\ [][\A t \in Txns :
          /\ (/\ StartStep(t)
              /\ eng[tx'[t].engagementId].exists
              /\ tx'[t].newProgress
                   = eng[tx'[t].engagementId].currentProgress
              /\ tx'[t].newProgress < MILESTONES.COMPLETED)
             => tx'[t].pc = "validated"
          /\ (/\ CommitStep(t)
              /\ tx[t].newProgress
                   = eng[tx[t].engagementId].currentProgress)
             => /\ eng'[tx[t].engagementId] = eng[tx[t].engagementId]
                /\ ledger'[tx[t].engagementId]
                     = ledger[tx[t].engagementId]]_vars
  /\ [](\A e \in Engagements : \A i \in DOMAIN ledger[e] :
          ledger[e][i].fromValue # ledger[e][i].toValue)

\* slot t takes in this step a request for an existing engagement that asks
\* for a value other than the committed one
ChangeRequested(t) ==
  /\ StartStep(t)
  /\ eng[tx'[t].engagementId].exists
  /\ tx'[t].newProgress # eng[tx'[t].engagementId].currentProgress

Smallest(S) == CHOOSE m \in S : \A n \in S : m <= n

\* the shape of the declared graph and of the recommendation, milestone by
\* milestone
DeclaredGraphShape ==
  \A c \in MilestoneSet :
    LET allowed == getAllowedTransitions(c) IN
      /\ \A i \in DOMAIN allowed :
           allowed[i] \in MilestoneSet /\ allowed[i] > c
      /\ MILESTONES.COMPLETED \in Range(allowed)
           => c = MILESTONES.FINAL_STAGE
      /\ c = MILESTONES.COMPLETED => allowed = <<>>
      /\ c # MILESTONES.COMPLETED => Len(allowed) >= 1
      /\ getNextRecommendedMilestone(c)
           = IF c = MILESTONES.COMPLETED THEN <<>>
             ELSE <<Smallest(Range(allowed))>>

\* C14: in the declared transition graph every target is strictly greater
\* than its source, 100 is a target only of 90, 100 has no outgoing
\* transition and every other milestone has at least one;
\* getNextRecommendedMilestone returns the smallest declared target, and
\* nothing for 100, also on the currentProgress of every stored engagement.
C14_TransitionGraph ==
  /\ DeclaredGraphShape
  /\ \A e \in Engagements :
       eng[e].exists
         => getNextMilestone(e)
              = IF eng[e].currentProgress = MILESTONES.COMPLETED THEN <<>>
                ELSE <<Smallest(Range(
                         getAllowedTransitions(eng[e].currentProgress)))>>

\* an engagement updated to 75 has 80 recommended, of the declared targets
\* 80 and 90
C14_Witness ==
  \E e \in Engagements :
    /\ eng[e].exists
    /\ eng[e].currentProgress = MILESTONES.THREE_QUARTER
    /\ Len(ledger[e]) = 1
    /\ getAllowedTransitions(eng[e].currentProgress) = <<80, 90>>
    /\ getNextMilestone(e) = <<80>>

\* the values an existing engagement's document can show for isCompleted
Readings(e) == {[eng[e] EXCEPT !.isCompleted = c] : c \in BOOLEAN}

\* C15: for every combination of isCompleted and feedback existence,
\* getAccessMode and getCompletionStatus.accessMode are 'full' when the
\* engagement is not completed, whatever the feedback, 'feedback-required'
\* when it is completed without feedback and 'read-only' when it is
\* completed with feedback; canAccessEngagement for the owning user is false
\* exactly in the 'feedback-required' mode.
C15_AccessModeDerivation ==
  \A e \in Engagements :
    eng[e].exists
      => \A doc \in Readings(e) \cup {eng[e]} :
           \A f \in BOOLEAN \cup {hasFeedback(e)} :
             LET mode == getAccessMode(doc, f).mode
                 status == getCompletionStatus(doc, f)
             IN /\ ~doc.isCompleted => mode = "full"
                /\ (doc.isCompleted /\ ~f) => mode = "feedback-required"
                /\ (doc.isCompleted /\ f) => mode = "read-only"
                /\ status.accessMode = mode
                /\ status.canAccess <=> mode # "feedback-required"
                /\ canAccessEngagement(TRUE, doc, f)
                     <=> mode # "feedback-required"

\* a completed engagement with its feedback submitted is read as read-only
\* and open to its owner
C15_Witness ==
  \E e \in Engagements :
    /\ eng[e].isCompleted
    /\ hasFeedback(e)
    /\ getAccessMode(eng[e], hasFeedback(e)).mode = "read-only"
    /\ getCompletionStatus(eng[e], hasFeedback(e)).accessMode = "read-only"
    /\ canAccessEngagement(eng[e].exists, eng[e], hasFeedback(e))

\* C16: for an existing engagement isMessagingAllowed returns exactly
\* (not isCompleted) and messagingAllowed, so in every state after completion
\* it returns false whatever value the stored messagingAllowed flag has.
C16_MessagingGate ==
  \A e \in Engagements :
    eng[e].exists
      => \A m \in BOOLEAN :
           LET doc == [eng[e] EXCEPT !.messagingAllowed = m]
               answer == isMessagingAllowed(TRUE, doc)
           IN /\ eng[e].isCompleted => ~answer
              /\ ~eng[e].isCompleted => (answer <=> m)
              /\ answer => ~eng[e].isCompleted /\ m

\* an engagement that received a message while messaging was allowed is
\* completed, and messaging is reported as not allowed
C16_Witness ==
  \E e \in Engagements :
    /\ eng[e].isCompleted
    /\ eng[e].messageCount > 0
    /\ ~isMessagingAllowed(eng[e].exists, eng[e])
    /\ ~isMessagingAllowed(TRUE, [eng[e] EXCEPT !.messagingAllowed = TRUE])

\* the step in which call t hands its outcome to its caller
ReturnStep(t) == Returning(t) /\ tx'[t].pc = "idle"

\* call t returns the updated engagement (it does not throw)
ReturnsEngagement(t) == tx[t].pc \in {"committed", "notified", "unnotified"}

\* the 'engagement.completed' notifications stored for engagement e
CompletedEvents(e) ==
  {i \in DOMAIN notifications :
     notifications[i] = [type |-> "engagement.completed", engagementId |-> e]}

\* C17: when an engagement moves from 90 to 100 through either entry point
\* (the progress controller calling updateProgress, the engagement
\* controller calling updateEngagementProgress), it ends with isCompleted =
\* true and messagingAllowed = false and exactly one 'engagement.completed'
\* event has been emitted for it; no other update emits a completed event.
C17_CompletionEventOnce ==
  [][/\ \A t \in Txns :
          (/\ ReturnStep(t)
           /\ ReturnsEngagement(t)
           /\ tx[t].newProgress = MILESTONES.COMPLETED)
            => /\ eng'[tx[t].engagementId].isCompleted
               /\ ~eng'[tx[t].engagementId].messagingAllowed
               /\ Cardinality(CompletedEvents(tx[t].engagementId)') = 1
     /\ notifications' # notifications
          => \E t \in Txns :
               /\ tx[t].pc = "completed"
               /\ tx[t].newProgress = MILESTONES.COMPLETED
               /\ tx'[t].pc = "notified"]_vars

\* the completion notification of call t fails in this step
NotificationFails(t) ==
  /\ Notifying(t)
  /\ tx'[t] # tx[t]
  /\ notifications' = notifications

\* C18: if emitting the completion notification fails, the progress commit
\* stands: the call still returns the updated engagement, and the engagement
\* stays at 100 with isCompleted = true and its ledger entry present.
C18_NotificationFailureKeepsCommit ==
  /\ [][\A t \in Txns :
          /\ NotificationFails(t)
               => /\ tx'[t].pc = "unnotified"
                  /\ tx'[t].engagement = tx[t].engagement
                  /\ eng' = eng /\ ledger' = ledger
          /\ (tx[t].pc = "unnotified" /\ tx'[t] # tx[t])
               => /\ ReturnStep(t) /\ ReturnsEngagement(t)
                  /\ eng' = eng /\ ledger' = ledger]_vars
  /\ [](\A t \in Txns :
          tx[t].pc = "unnotified"
            => LET e == tx[t].engagementId IN
                 /\ tx[t].engagement.currentProgress = MILESTONES.COMPLETED
                 /\ tx[t].engagement.isCompleted
                 /\ eng[e].currentProgress = MILESTONES.COMPLETED
                 /\ eng[e].isCompleted
                 /\ Len(ledger[e]) > 0
                 /\ ledger[e][Len(ledger[e])].toValue = MILESTONES.COMPLETED)

\* an update from 90 to 100 through updateEngagementProgress is about to
\* return its engagement although the notification failed
C18_Witness ==
  \E t \in Txns :
    /\ tx[t].pc = "unnotified"
    /\ tx[t].via = "engagement"
    /\ notifications = <<>>
    /\ eng[tx[t].engagementId].isCompleted
    /\ ledger[tx[t].engagementId]
         = <<[fromValue |-> MILESTONES.FINAL_STAGE,
              toValue |-> MILESTONES.COMPLETED]>>

\* call t fails in this step: its error is on the way to the caller
FailStep(t) ==
  /\ tx'[t].pc \in {"rejected", "aborted"}
  /\ tx[t].pc \notin {"rejected", "aborted"}

\* the transaction of call t has committed
HasCommitted(t) ==
  tx[t].pc \in {"committed", "completed", "notified", "unnotified"}

\* C19: whenever an update call (updateProgress or updateEngagementProgress,
\* its post-commit completion handling included) returns an error to the
\* caller, no partial state exists: the call has committed nothing, so the
\* engagement and its ledger hold none of its writes and the same request
\* can be retried.
C19_ErrorLeavesNoPartialState ==
  [][\A t \in Txns :
       /\ FailStep(t)
            => /\ ~HasCommitted(t)
               /\ eng' = eng /\ ledger' = ledger
       /\ (ReturnStep(t) /\ ~ReturnsEngagement(t))
            => /\ eng' = eng /\ ledger' = ledger
               /\ tx[t].failedAt \notin {"committed", "completed"}]_vars

\* C20: in every committed state an engagement's embedded progressHistory
\* has as many entries as the ledger holds for the engagement, and its
\* values in list order are the toValues of the ledger entries in creation
\* order.
C20_EmbeddedMatchesLedger ==
  \A e \in Engagements :
    eng[e].exists
      => /\ Len(eng[e].progressHistory) = Len(ledger[e])
         /\ \A i \in DOMAIN ledger[e] :
              i \in DOMAIN eng[e].progressHistory
                => eng[e].progressHistory[i] = ledger[e][i].toValue

\* engagement e is created in this step
CreationStep(e) == ~eng[e].exists /\ eng'[e].exists

\* C21: creating an engagement writes an initial ledger entry, and every
\* successful updateProgress appends exactly one more entry and removes or
\* rewrites none, so creation followed by n successful updates leaves n + 1
\* entries (created at 10, then 10 to 25: two entries and currentProgress 25).
C21_LedgerCountsCreation ==
  [][\A e \in Engagements :
       /\ CreationStep(e) => Len(ledger'[e]) = 1
       /\ (\E t \in Txns : CommitStep(t) /\ tx[t].engagementId = e)
            => /\ Len(ledger'[e]) = Len(ledger[e]) + 1
               /\ SubSeq(ledger'[e], 1, Len(ledger[e])) = ledger[e]
       /\ ~(CreationStep(e)
              \/ \E t \in Txns : CommitStep(t) /\ tx[t].engagementId = e)
            => ledger'[e] = ledger[e]
       /\ (/\ \E t \in Txns : CommitStep(t) /\ tx[t].engagementId = e
           /\ eng[e].progressHistory = <<10>>
           /\ eng'[e].currentProgress = 25)
            => Len(ledger'[e]) = 2]_vars

\* C23: an updateProgress call on engagement A never changes engagement
\* B's currentProgress, completion flags, embedded progressHistory or ledger
\* entries, and an update in flight on A never blocks or aborts an update on
\* B: a write conflict comes only from a write to the same engagement.
C23_NoCrossEngagementEffect ==
  [][\A t \in Txns :
       tx'[t] # tx[t]
         => LET a == IF tx[t].pc = "idle" THEN tx'[t].engagementId
                     ELSE tx[t].engagementId
            IN /\ \A b \in EngagementPair \ {a} :
                    /\ eng'[b] = eng[b]
                    /\ ledger'[b] = ledger[b]
                    /\ docVersion'[b] = docVersion[b]
               /\ (tx'[t].pc = "aborted" /\ tx'[t].error = "WriteConflict")
                    => \/ docVersion[a] # tx[t].snapVersion
                       \/ \E u \in Txns \ {t} :
                            tx[u].engagementId = a /\ tx[u].wrote
               /\ (/\ tx[t].pc \in {"validated", "created"}
                   /\ docVersion[a] = tx[t].snapVersion
                   /\ \A u \in Txns \ {t} : tx[u].engagementId # a)
                    => tx'[t].error # "WriteConflict"]_vars

\* the updates of two different engagements both hold their buffered
\* writes at the same time
C23_Witness ==
  /\ tx["t1"].pc = "cached" /\ tx["t2"].pc = "cached"
  /\ tx["t1"].engagementId # tx["t2"].engagementId
  /\ tx["t1"].wrote /\ tx["t2"].wrote

\* C24: submitFeedback for an engagement that is not completed is rejected
\* and creates no feedback record, so in every reachable state an
\* engagement that has a feedback record is completed.
C24_FeedbackOnlyWhenCompleted ==
  /\ [][\A e \in Engagements :
          (~feedback[e] /\ feedback'[e])
            => eng[e].isCompleted /\ eng'[e].isCompleted]_vars
  /\ [](\A e \in Engagements : hasFeedback(e) => eng[e].isCompleted)

\* feedback was submitted for an engagement that two updates took to 100
C24_Witness ==
  \E e \in Engagements :
    /\ hasFeedback(e)
    /\ eng[e].isCompleted
    /\ Len(ledger[e]) = 2
    /\ ledger[e][2].toValue = MILESTONES.COMPLETED

\* C27: under any interleaving of updateProgress calls the ledger entries of
\* an engagement in creation order form a chain: each entry's fromValue
\* equals the previous entry's toValue, and the first entry's fromValue
\* equals the milestone the engagement was created with (the first value of
\* its embedded progressHistory).
C27_LedgerChain ==
  \A e \in Engagements :
    eng[e].exists
      => /\ Len(ledger[e]) >= 1
              => ledger[e][1].fromValue = eng[e].progressHistory[1]
         /\ \A i \in 2..Len(ledger[e]) :
              ledger[e][i].fromValue = ledger[e][i - 1].toValue

\* of two updates in flight on the same engagement one committed its entry
\* and the other, which read the engagement before that commit and asked
\* for another milestone, was aborted by the write conflict
C27_Witness ==
  \E e \in Engagements : \E t \in Txns :
    /\ Len(ledger[e]) = 1
    /\ ledger[e][1].fromValue # ledger[e][1].toValue
    /\ tx[t].pc = "aborted" /\ tx[t].error = "WriteConflict"
    /\ tx[t].engagementId = e
    /\ tx[t].newProgress # ledger[e][1].toValue

\* C28: every milestone listed in the allowedTransitions of a rejected
\* validation would itself be accepted by validateProgressTransition when
\* requested from the same current value.
C28_AlternativesAreAccepted ==
  \A t \in Txns :
    (tx[t].pc = "rejected" /\ tx[t].previousState.exists)
      => LET cur == tx[t].previousState.currentProgress
             v == validateProgressTransition(cur, tx[t].newProgress)
         IN ~v.isValid
              => \A m \in Range(v.allowedTransitions) :
                   validateProgressTransition(cur, m).isValid

\* the access mode a reader derives for engagement e from the stored state
AccessMode(e) == getAccessMode(eng[e], hasFeedback(e)).mode

\* the order full, feedback-required, read-only
ModeRank(mode) ==
  CASE mode = "full" -> 1
    [] mode = "feedback-required" -> 2
    [] mode = "read-only" -> 3

\* C29 as stated: for a given engagement the access mode only ever advances
\* in the order full, feedback-required, read-only; under any sequence of
\* updateProgress, submitFeedback and deleteFeedback it never returns to an
\* earlier mode.
C29_AccessModeNeverRegresses ==
  [][\A e \in Engagements :
       (eng[e].exists /\ eng'[e].exists)
         => ModeRank(AccessMode(e)') >= ModeRank(AccessMode(e))]_vars

\* C29 amended: the access mode of an engagement advances one mode at a
\* time, full to feedback-required on completion and feedback-required to
\* read-only on submitFeedback; no step of updateProgress or submitFeedback
\* returns it to an earlier mode and no step at all returns it to full; the
\* one step back is deleteFeedback, which takes a read-only engagement to
\* feedback-required.
C29_AccessModeSteps ==
  [][\A e \in Engagements :
       (eng[e].exists /\ eng'[e].exists)
         => LET before == AccessMode(e)
                after == AccessMode(e)'
            IN /\ ModeRank(after) > ModeRank(before)
                    => /\ ModeRank(after) = ModeRank(before) + 1
                       /\ before = "full" <=> eng'[e].isCompleted
                                                /\ ~eng[e].isCompleted
                       /\ before = "feedback-required"
                            <=> feedback'[e] /\ ~feedback[e]
               /\ ModeRank(after) < ModeRank(before)
                    => /\ before = "read-only"
                       /\ after = "feedback-required"
                       /\ feedback[e] /\ ~feedback'[e]
                       /\ eng'[e] = eng[e]
               /\ before # "full" => after # "full"]_vars

\* an engagement went through the three modes: one update took it from 90
\* to 100 and its feedback was then submitted
C29_Witness ==
  \E e \in Engagements :
    /\ AccessMode(e) = "read-only"
    /\ Len(ledger[e]) = 1
    /\ ledger[e][1].fromValue = MILESTONES.FINAL_STAGE
    /\ ledger[e][1].toValue = MILESTONES.COMPLETED

C30_NoMessageAfterCompletion ==
  [][\A e \in Engagements :
       eng'[e].messageCount > eng[e].messageCount
         => /\ ~eng[e].isCompleted /\ eng[e].messagingAllowed
            /\ ~eng'[e].isCompleted /\ eng'[e].messagingAllowed]_vars

\* a sendMessage transaction that had loaded the engagement before the
\* update to 100 committed has just been aborted by its save: the
\* engagement is completed and holds no message
C30_Witness ==
  \E e \in Engagements :
    /\ eng[e].isCompleted
    /\ eng[e].messageCount = 0
    /\ msg.pc = "created"
    /\ msg.engagementId = e
    /\ ~msg.engagement.isCompleted
    /\ MessageWriteConflict

\* the day of the most recent progress-ledger activity of engagement e: its
\* newest ledger entry, or its creation while it has none
LastLedgerActivity(e) ==
  IF ledger[e] = <<>> THEN stamps[e].createdAt
  ELSE stamps[e].entries[Len(ledger[e])].createdAt

\* C22: findStalled(thresholdDays) returns exactly the engagements that are
\* active, not completed, and whose most recent progress-ledger activity is
\* older than now minus thresholdDays, ordered oldest activity first; a
\* completed engagement is never returned, and activity other than progress
\* changes (such as a sent message) does not remove an engagement from the
\* result.
C22_StalledByLedgerActivity ==
  \A d \in 1..MaxDays :
    LET result == checkStalledEngagements(d)
        stalled == {e \in Engagements : /\ eng[e].exists
                                        /\ ~eng[e].isCompleted
                                        /\ LastLedgerActivity(e) < now - d}
    IN /\ {result[i].engagementId : i \in DOMAIN result} = stalled
       /\ Len(result) = Cardinality(stalled)
       /\ \A i \in DOMAIN result : ~eng[result[i].engagementId].isCompleted
       /\ \A i, j \in DOMAIN result :
            i < j => LastLedgerActivity(result[i].engagementId)
                       <= LastLedgerActivity(result[j].engagementId)

\* the day engagement e entered the fromValue of its ledger entry i: its
\* creation for the first entry, else the entry that brought it there
RECURSIVE EnteredAt(_, _)
EnteredAt(e, i) ==
  IF i = 1 THEN stamps[e].createdAt
  ELSE IF ledger[e][i - 1].fromValue = ledger[e][i - 1].toValue
    THEN EnteredAt(e, i - 1)
  ELSE stamps[e].entries[i - 1].createdAt

\* C25: every ledger entry written by updateProgress carries a
\* timeAtMilestone equal to the time elapsed between the moment the
\* engagement entered the entry's fromValue and the moment this entry was
\* created; this holds for the first transition out of the milestone set at
\* creation and when earlier entries for the same milestone exist.
C25_TimeAtMilestoneIsElapsed ==
  \A e \in Engagements :
    \A i \in DOMAIN ledger[e] :
      stamps[e].entries[i].timeAtMilestone
        = <<((stamps[e].entries[i].createdAt - EnteredAt(e, i)) * MsPerDay)
              \div 1000>>

====
